---- MODULE Spec2Model ----
(***************************************************************************)
(* Vision board generator: the dimension resolver, the supply estimator    *)
(* and the layout engine (grid and free mode) of src/utils/collage.ts and  *)
(* utils/imageSupply.ts, as pure functions applied by one action each.     *)
(*                                                                         *)
(* JavaScript numbers are modelled as exact rationals [n |-> numerator,    *)
(* d |-> denominator > 0] in lowest terms; the estimator's one non-finite  *)
(* result (a division by a zero cell area) is modelled explicitly.         *)
(* Math.random() is a tape of draws from [0, 1), read cyclically.          *)
(***************************************************************************)
EXTENDS Integers, Sequences, FiniteSets, TLC

VARIABLES op, args, ret, fetch, search, provider, screen

vars == <<op, args, ret, fetch, search, provider, screen>>

(***************************************************************************)
(* Bounds of the model.                                                    *)
(***************************************************************************)
\* longest image list handed to the layout engine
MaxImages == 3
\* length of the tape of Math.random() draws
TapeLen == 3
\* largest currentImageCount handed to the estimator
MaxCurrentCount == 4
\* the dimension resolver is applied to every width budget up to this one
MaxWidthBudget == 48
\* the provider holds images with identities 1 .. MaxIds
MaxIds == 2
\* calculateSafeGridDimensions is applied to 0 .. MaxGridCount cells
MaxGridCount == 12
\* the collage screen handles at most this many picks, drags, scalings and
\* removals while it is open
MaxEdits == 2

(***************************************************************************)
(* Exact rational arithmetic.                                              *)
(***************************************************************************)
Abs(x) == IF x < 0 THEN -x ELSE x

Max(a, b) == IF a >= b THEN a ELSE b

Min(a, b) == IF a <= b THEN a ELSE b

RECURSIVE GCD(_, _)
GCD(a, b) == IF b = 0 THEN a ELSE GCD(b, a % b)

\* the rational n/d (d # 0) in lowest terms with a positive denominator
Q(n, d) ==
    LET g == GCD(Abs(n), Abs(d))
        s == IF d < 0 THEN -1 ELSE 1
    IN  [n |-> (s * n) \div g, d |-> (s * d) \div g]

QI(i) == [n |-> i, d |-> 1]

\* sums and comparisons go through the least common denominator
QAdd(a, b) ==
    LET g == GCD(a.d, b.d)
    IN  Q(a.n * (b.d \div g) + b.n * (a.d \div g), (a.d \div g) * b.d)

QSub(a, b) == QAdd(a, [n |-> -b.n, d |-> b.d])

QMul(a, b) ==
    LET g1 == GCD(Abs(a.n), b.d)
        g2 == GCD(Abs(b.n), a.d)
    IN  [n |-> (a.n \div g1) * (b.n \div g2), d |-> (a.d \div g2) * (b.d \div g1)]

\* a / b for b # 0
QDiv(a, b) == QMul(a, Q(b.d, b.n))

QLt(a, b) ==
    LET g == GCD(a.d, b.d)
    IN  a.n * (b.d \div g) < b.n * (a.d \div g)

QLe(a, b) == ~QLt(b, a)

QMax(a, b) == IF QLt(a, b) THEN b ELSE a

QMin(a, b) == IF QLt(b, a) THEN b ELSE a

\* Math.floor and Math.ceil
QFloor(a) == a.n \div a.d

QCeil(a) == -((-a.n) \div a.d)

\* Math.round: the nearest integer, a tie going up
QRound(a) == QFloor(QAdd(a, Q(1, 2)))

\* Math.ceil(Math.sqrt(a)) for a >= 0: the least k >= 0 with k * k >= a
RECURSIVE CeilSqrtFrom(_, _)
CeilSqrtFrom(a, k) == IF k * k * a.d >= a.n THEN k ELSE CeilSqrtFrom(a, k + 1)

CeilSqrt(a) == CeilSqrtFrom(a, 0)

(***************************************************************************)
(* Dimension resolver: getScreenDimensions.                                *)
(***************************************************************************)
\* variant: the height is truncated instead of rounded
getScreenDimensions_Truncated(ratio, maxWidth) ==
    IF ratio = "9:16"
    THEN [width |-> maxWidth, height |-> QFloor(QMul(QI(maxWidth), Q(16, 9)))]
    ELSE [width |-> maxWidth, height |-> QFloor(QMul(QI(maxWidth), Q(9, 16)))]

getScreenDimensions(ratio, maxWidth) ==
    IF ratio = "9:16"
    THEN [width |-> maxWidth, height |-> QRound(QMul(QI(maxWidth), Q(16, 9)))]
    ELSE [width |-> maxWidth, height |-> QRound(QMul(QI(maxWidth), Q(9, 16)))]

(***************************************************************************)
(* Supply estimator: calculateRequiredImageCount.  The result is           *)
(* [finite |-> TRUE, value |-> integer], or [finite |-> FALSE, value |-> 0]*)
(* for JavaScript's Infinity, which the division by a zero cell area       *)
(* yields.  Modelled for positive screenWidth and screenHeight.            *)
(***************************************************************************)
gap == 4

calculateRequiredImageCount(screenWidth, screenHeight, mode, currentImageCount) ==
    LET screenArea == QI(screenWidth * screenHeight)
        targetCoverage == QMul(screenArea, Q(11, 10))
    IN  IF mode = "grid"
        THEN
          LET aspectRatio == Q(screenWidth, screenHeight)
              \* Math.sqrt(...) || 1 : a zero square root is replaced by 1
              estimatedCols ==
                  IF currentImageCount = 0
                  THEN 1
                  ELSE CeilSqrt(QMul(QI(currentImageCount), aspectRatio))
              estimatedRows ==
                  QCeil(Q(IF currentImageCount = 0 THEN 1 ELSE currentImageCount,
                          estimatedCols))
              totalGapWidth == gap * (estimatedCols - 1)
              totalGapHeight == gap * (estimatedRows - 1)
              cellWidth == Q(screenWidth - totalGapWidth, estimatedCols)
              cellHeight == Q(screenHeight - totalGapHeight, estimatedRows)
              cellSize == QMin(cellWidth, cellHeight)
              cellArea == QMul(cellSize, cellSize)
          IN  IF cellArea.n = 0
              THEN [finite |-> FALSE, value |-> 0]
              ELSE LET requiredCells == QCeil(QDiv(targetCoverage, cellArea))
                   IN  [finite |-> TRUE,
                        value |-> QCeil(QMul(QI(requiredCells), Q(12, 10)))]
        ELSE
          LET baseImageSize == QMul(QI(Min(screenWidth, screenHeight)), Q(3, 10))
              averageScale == QI(1)
              averageAspectRatio == Q(133, 100)
              averageWidth == QMul(baseImageSize, averageScale)
              averageHeight == QDiv(averageWidth, averageAspectRatio)
              averageImageArea == QMul(averageWidth, averageHeight)
              requiredImages == QCeil(QDiv(targetCoverage, averageImageArea))
          IN  [finite |-> TRUE,
               value |-> QCeil(QMul(QI(requiredImages), Q(13, 10)))]

(***************************************************************************)
(* Layout engine, shared parts.  An image is [id, url, width, height]; a   *)
(* placement is a CollageImage record.  A layout operation returns         *)
(* [threw |-> FALSE, value |-> placements], or [threw |-> TRUE, ...] when  *)
(* a TypeError escapes it.                                                 *)
(***************************************************************************)
Undefined == [undefined |-> TRUE]

Returned(list) == [threw |-> FALSE, value |-> list]

Thrown == [threw |-> TRUE, value |-> <<>>]

\* images[i] of a JavaScript array: undefined outside 0 .. length - 1
ArrayAt(images, i) ==
    IF i \in 0 .. (Len(images) - 1) THEN images[i + 1] ELSE Undefined

\* variant: the suffix does not carry the index
DuplicateId_NoIndex(id, index) == id \o "-dup"

\* `${id}-dup-${index}`
DuplicateId(id, index) == id \o "-dup-" \o ToString(index)

RECURSIVE SumArea(_, _)
SumArea(collageImages, k) ==
    IF k = 0
    THEN QI(0)
    ELSE QAdd(SumArea(collageImages, k - 1),
              QMul(collageImages[k].width, collageImages[k].height))

calculateCoverage(collageImages) == SumArea(collageImages, Len(collageImages))

(***************************************************************************)
(* Layout engine, grid mode.                                               *)
(***************************************************************************)
RECURSIVE ShrinkRows(_, _, _)
ShrinkRows(rows, cols, imageCount) ==
    IF (rows - 1) * cols >= imageCount /\ rows > 1
    THEN ShrinkRows(rows - 1, cols, imageCount)
    ELSE rows

\* variant: the column count is not shrunk
ShrinkCols_Kept(rows, cols, imageCount) == cols

RECURSIVE ShrinkCols(_, _, _)
ShrinkCols(rows, cols, imageCount) ==
    IF rows * (cols - 1) >= imageCount /\ cols > 1
    THEN ShrinkCols(rows, cols - 1, imageCount)
    ELSE cols

\* called with positive screenWidth and screenHeight only
calculateSafeGridDimensions(imageCount, screenWidth, screenHeight) ==
    IF imageCount <= 0
    THEN [cols |-> 1, rows |-> 1]
    ELSE
      LET aspectRatio == Q(screenWidth, screenHeight)
          cols0 == Max(1, CeilSqrt(QMul(QI(imageCount), aspectRatio)))
          rows0 == Max(1, QCeil(Q(imageCount, cols0)))
          rows1 == ShrinkRows(rows0, cols0, imageCount)
          cols1 == ShrinkCols(rows1, cols0, imageCount)
      IN  [cols |-> Max(1, cols1),
           rows |-> Max(1, QCeil(Q(imageCount, Max(1, cols1))))]

\* the cell size of a cols x rows grid on the canvas, never below 1
GridCellSize(cols, rows, screenWidth, screenHeight) ==
    LET totalGapWidth == gap * Max(0, cols - 1)
        totalGapHeight == gap * Max(0, rows - 1)
        availableWidth == Max(1, screenWidth - totalGapWidth)
        availableHeight == Max(1, screenHeight - totalGapHeight)
        cellWidth == Q(availableWidth, Max(1, cols))
        cellHeight == Q(availableHeight, Max(1, rows))
    IN  QMax(QI(1), QMin(cellWidth, cellHeight))

\* cols, rows and cell size of the grid fitted to imageCount cells
GridFit(imageCount, screenWidth, screenHeight) ==
    LET grid == calculateSafeGridDimensions(imageCount, screenWidth, screenHeight)
    IN  [cols |-> grid.cols, rows |-> grid.rows,
         cellSize |-> GridCellSize(grid.cols, grid.rows, screenWidth, screenHeight)]

\* variant: the coverage of the initial fit is not checked
GridCount_NeverTopsUp(fit, imageCount, screenWidth, screenHeight) ==
    [toppedUp |-> FALSE, imageCount |-> imageCount]

\* the coverage check on the initial fit: whether to top up, and the final count
GridCount(fit, imageCount, screenWidth, screenHeight) ==
    LET screenArea == QI(screenWidth * screenHeight)
        targetCoverage == QMul(screenArea, Q(11, 10))
        cellArea == QMul(fit.cellSize, fit.cellSize)
        currentCoverage == QMul(QI(imageCount), cellArea)
        additionalCellsNeeded ==
            QCeil(QDiv(QSub(targetCoverage, currentCoverage), cellArea))
    IN  IF QLt(QI(0), cellArea) /\ QLt(currentCoverage, targetCoverage)
        THEN [toppedUp |-> TRUE, imageCount |-> imageCount + additionalCellsNeeded]
        ELSE [toppedUp |-> FALSE, imageCount |-> imageCount]

\* variant: the whole free margin is put before the grid
GridOffsets_NotHalved(final, screenWidth, screenHeight) ==
    LET totalUsedWidth ==
            QAdd(QMul(QI(final.cols), final.cellSize),
                 QI(gap * Max(0, final.cols - 1)))
        totalUsedHeight ==
            QAdd(QMul(QI(final.rows), final.cellSize),
                 QI(gap * Max(0, final.rows - 1)))
    IN  [offsetX |-> QMax(QI(0), QSub(QI(screenWidth), totalUsedWidth)),
         offsetY |-> QMax(QI(0), QSub(QI(screenHeight), totalUsedHeight))]

\* the centring offsets of the final grid
GridOffsets(final, screenWidth, screenHeight) ==
    LET totalUsedWidth ==
            QAdd(QMul(QI(final.cols), final.cellSize),
                 QI(gap * Max(0, final.cols - 1)))
        totalUsedHeight ==
            QAdd(QMul(QI(final.rows), final.cellSize),
                 QI(gap * Max(0, final.rows - 1)))
    IN  [offsetX |-> QMax(QI(0), QDiv(QSub(QI(screenWidth), totalUsedWidth), QI(2))),
         offsetY |-> QMax(QI(0), QDiv(QSub(QI(screenHeight), totalUsedHeight), QI(2)))]

\* variant: the inflated count is laid out on the initial grid
GridFinal_KeepsInitialFit(fit, count, screenWidth, screenHeight) == fit

\* the grid that is laid out: the initial fit, or a fresh fit of the inflated count
GridFinal(fit, count, screenWidth, screenHeight) ==
    IF count.toppedUp
    THEN GridFit(count.imageCount, screenWidth, screenHeight)
    ELSE fit

\* the final grid: count, cols, rows, cell size and centring offsets.  Each
\* stage is bound as a value (a one-element set) before the next one reads it.
GridPlan(imageCount, screenWidth, screenHeight) ==
    CHOOSE plan \in
      UNION { UNION { {
        [cols |-> final.cols, rows |-> final.rows, imageCount |-> count.imageCount,
         cellSize |-> final.cellSize, toppedUp |-> count.toppedUp,
         offsetX |-> GridOffsets(final, screenWidth, screenHeight).offsetX,
         offsetY |-> GridOffsets(final, screenWidth, screenHeight).offsetY] :
            final \in {GridFinal(fit, count, screenWidth, screenHeight)} } :
            count \in {GridCount(fit, imageCount, screenWidth, screenHeight)} } :
            fit \in {GridFit(imageCount, screenWidth, screenHeight)} } : TRUE

\* variant: row and column are derived from the row count
GridCell_ByRows(images, plan, i) ==
    LET source == ArrayAt(images, i % Len(images))
        image == IF i >= Len(images)
                 THEN [source EXCEPT !.id = DuplicateId(source.id, i)]
                 ELSE source
        row == i \div Max(1, plan.rows)
        col == i % Max(1, plan.rows)
        x == QAdd(plan.offsetX, QMul(QI(col), QAdd(plan.cellSize, QI(gap))))
        y == QAdd(plan.offsetY, QMul(QI(row), QAdd(plan.cellSize, QI(gap))))
    IN  [id |-> image.id, url |-> image.url, x |-> x, y |-> y,
         width |-> plan.cellSize, height |-> plan.cellSize,
         scale |-> QI(1), rotation |-> QI(0),
         originalWidth |-> QI(image.width), originalHeight |-> QI(image.height)]

\* one pass of the cell loop: the placement of index i, or Undefined when skipped
GridCell(images, plan, i) ==
    LET first == ArrayAt(images, i % Len(images))
        image0 == IF first = Undefined THEN ArrayAt(images, 0) ELSE first
        source == IF ArrayAt(images, i % Len(images)) = Undefined
                  THEN ArrayAt(images, 0)
                  ELSE ArrayAt(images, i % Len(images))
        image == IF i >= Len(images) /\ source # Undefined
                 THEN [source EXCEPT !.id = DuplicateId(source.id, i)]
                 ELSE image0
        row == i \div Max(1, plan.cols)
        col == i % Max(1, plan.cols)
        x == QAdd(plan.offsetX, QMul(QI(col), QAdd(plan.cellSize, QI(gap))))
        y == QAdd(plan.offsetY, QMul(QI(row), QAdd(plan.cellSize, QI(gap))))
    IN  IF image = Undefined
        THEN Undefined
        ELSE IF QLt(QI(0), plan.cellSize) /\ QLe(QI(0), x) /\ QLe(QI(0), y)
        THEN [id |-> image.id, url |-> image.url, x |-> x, y |-> y,
              width |-> plan.cellSize, height |-> plan.cellSize,
              scale |-> QI(1), rotation |-> QI(0),
              originalWidth |-> IF image.width # 0 THEN QI(image.width)
                                ELSE plan.cellSize,
              originalHeight |-> IF image.height # 0 THEN QI(image.height)
                                 ELSE plan.cellSize]
        ELSE Undefined

\* the cell loop: indices 0 .. imageCount - 1 in order, the skipped ones dropped
GridFill(images, plan) ==
    LET cells == [k \in 1 .. plan.imageCount |-> GridCell(images, plan, k - 1)]
    IN  SelectSeq(cells, LAMBDA cell : cell # Undefined)

\* the catch block: a single column of squares, at most 20 of them
GridFallback(images, screenWidth, screenHeight) ==
    LET cellSize == QMin(QI(screenWidth - gap * 2),
                         Q(screenHeight - gap * (Len(images) + 1), Len(images)))
        safeCellSize == QMax(QI(50), cellSize)
    IN  [i \in 1 .. Min(Len(images), 20) |->
            [id |-> images[i].id, url |-> images[i].url,
             x |-> QI(gap),
             y |-> QAdd(QI(gap), QMul(QI(i - 1), QAdd(safeCellSize, QI(gap)))),
             width |-> safeCellSize, height |-> safeCellSize,
             scale |-> QI(1), rotation |-> QI(0),
             originalWidth |-> IF images[i].width # 0 THEN QI(images[i].width)
                               ELSE safeCellSize,
             originalHeight |-> IF images[i].height # 0 THEN QI(images[i].height)
                                ELSE safeCellSize]]

\* the try block; nothing in it raises on an array of well-formed images
GridTry(images, screenWidth, screenHeight) ==
    CHOOSE tried \in
      { Returned(GridFill(images, plan)) :
            plan \in {GridPlan(Len(images), screenWidth, screenHeight)} } : TRUE

generateGridCollage(images, screenWidth, screenHeight) ==
    IF Len(images) = 0
    THEN Returned(<<>>)
    ELSE IF screenWidth <= 0 \/ screenHeight <= 0
    THEN Returned(<<>>)
    ELSE LET tried == GridTry(images, screenWidth, screenHeight)
         IN  IF tried.threw
             THEN Returned(GridFallback(images, screenWidth, screenHeight))
             ELSE tried

(***************************************************************************)
(* Layout engine, free mode.  draws = <<r1, r2, r3, r4>> are the four      *)
(* Math.random() results one placement consumes, in call order.            *)
(***************************************************************************)
\* variant: the position is not floored at 0
generateFreeImagePlacement_NoFloor(image, screenWidth, screenHeight, baseImageSize, draws) ==
    IF image = Undefined
    THEN Thrown
    ELSE
      LET aspectRatio == Q(image.width, image.height)
          scale == QAdd(Q(8, 10), QMul(draws[1], Q(4, 10)))
          width == QMul(baseImageSize, scale)
          height == QDiv(width, aspectRatio)
          rotation == QMul(QSub(draws[2], Q(1, 2)), QI(10))
          maxX == QSub(QI(screenWidth), QMul(width, Q(8, 10)))
          maxY == QSub(QI(screenHeight), QMul(height, Q(8, 10)))
      IN  [id |-> image.id, url |-> image.url,
           x |-> QMul(draws[3], maxX), y |-> QMul(draws[4], maxY),
           width |-> width, height |-> height, scale |-> scale,
           rotation |-> rotation,
           originalWidth |-> QI(image.width), originalHeight |-> QI(image.height)]

\* variant: the position bound subtracts 0.2 of the image instead of 0.8
generateFreeImagePlacement_WrongShare(image, screenWidth, screenHeight, baseImageSize, draws) ==
    IF image = Undefined
    THEN Thrown
    ELSE
      LET aspectRatio == Q(image.width, image.height)
          scale == QAdd(Q(8, 10), QMul(draws[1], Q(4, 10)))
          width == QMul(baseImageSize, scale)
          height == QDiv(width, aspectRatio)
          rotation == QMul(QSub(draws[2], Q(1, 2)), QI(10))
          maxX == QSub(QI(screenWidth), QMul(width, Q(2, 10)))
          maxY == QSub(QI(screenHeight), QMul(height, Q(2, 10)))
      IN  [id |-> image.id, url |-> image.url,
           x |-> QMax(QI(0), QMul(draws[3], maxX)),
           y |-> QMax(QI(0), QMul(draws[4], maxY)),
           width |-> width, height |-> height, scale |-> scale,
           rotation |-> rotation,
           originalWidth |-> QI(image.width), originalHeight |-> QI(image.height)]

generateFreeImagePlacement(image, screenWidth, screenHeight, baseImageSize, draws) ==
    IF image = Undefined
    THEN Thrown
    ELSE
      LET aspectRatio == Q(image.width, image.height)
          scale == QAdd(Q(8, 10), QMul(draws[1], Q(4, 10)))
          width == QMul(baseImageSize, scale)
          height == QDiv(width, aspectRatio)
          rotation == QMul(QSub(draws[2], Q(1, 2)), QI(10))
          maxX == QSub(QI(screenWidth), QMul(width, Q(8, 10)))
          maxY == QSub(QI(screenHeight), QMul(height, Q(8, 10)))
          x == QMax(QI(0), QMul(draws[3], maxX))
          y == QMax(QI(0), QMul(draws[4], maxY))
      IN  [id |-> image.id, url |-> image.url, x |-> x, y |-> y,
           width |-> width, height |-> height, scale |-> scale,
           rotation |-> rotation,
           originalWidth |-> QI(image.width), originalHeight |-> QI(image.height)]

\* the draws of the k-th placement (k = 0, 1, ...) of one layout pass
DrawsFor(rnd, k) ==
    [j \in 1 .. 4 |-> rnd[((4 * k + j - 1) % Len(rnd)) + 1]]

\* variant of the top-up loop: both caps are tested with <= instead of <
RECURSIVE FreeTopUp_OneMore(_, _, _, _, _, _, _, _)
FreeTopUp_OneMore(images, screenWidth, screenHeight, rnd, collageImages, currentCoverage, imageIndex, iterations) ==
    LET targetCoverage == QMul(QI(screenWidth * screenHeight), Q(11, 10))
        baseImageSize == QMul(QI(Min(screenWidth, screenHeight)), Q(3, 10))
        maxIterations == Min(Len(images) * 2, 50)
    IN  IF /\ QLt(currentCoverage, targetCoverage)
           /\ iterations <= maxIterations
           /\ imageIndex <= Len(images) * 2
        THEN
          LET imageToReuse == ArrayAt(images, imageIndex % Len(images))
              placement ==
                  generateFreeImagePlacement(imageToReuse, screenWidth, screenHeight,
                      baseImageSize, DrawsFor(rnd, Len(collageImages)))
              uniqueId == DuplicateId(imageToReuse.id, Len(collageImages))
              grown == Append(collageImages, [placement EXCEPT !.id = uniqueId])
          IN  FreeTopUp_OneMore(images, screenWidth, screenHeight, rnd, grown,
                                calculateCoverage(grown), imageIndex + 1,
                                iterations + 1)
        ELSE Returned(collageImages)

\* variant of the top-up loop: the reused image is indexed without wrapping
RECURSIVE FreeTopUp_NoWrap(_, _, _, _, _, _, _, _)
FreeTopUp_NoWrap(images, screenWidth, screenHeight, rnd, collageImages, currentCoverage, imageIndex, iterations) ==
    LET targetCoverage == QMul(QI(screenWidth * screenHeight), Q(11, 10))
        baseImageSize == QMul(QI(Min(screenWidth, screenHeight)), Q(3, 10))
        maxIterations == Min(Len(images) * 2, 50)
    IN  IF /\ QLt(currentCoverage, targetCoverage)
           /\ iterations < maxIterations
           /\ imageIndex < Len(images) * 2
        THEN
          LET imageToReuse == ArrayAt(images, Len(images) + imageIndex)
              placement ==
                  generateFreeImagePlacement(imageToReuse, screenWidth, screenHeight,
                      baseImageSize, DrawsFor(rnd, Len(collageImages)))
          IN  IF placement = Thrown
              THEN Thrown
              ELSE
                LET uniqueId == DuplicateId(imageToReuse.id, Len(collageImages))
                    grown == Append(collageImages, [placement EXCEPT !.id = uniqueId])
                IN  FreeTopUp_NoWrap(images, screenWidth, screenHeight, rnd, grown,
                                     calculateCoverage(grown), imageIndex + 1,
                                     iterations + 1)
        ELSE Returned(collageImages)

\* variant of the top-up loop: the coverage is not consulted
RECURSIVE FreeTopUp_IgnoresCoverage(_, _, _, _, _, _, _, _)
FreeTopUp_IgnoresCoverage(images, screenWidth, screenHeight, rnd, collageImages, currentCoverage, imageIndex, iterations) ==
    LET baseImageSize == QMul(QI(Min(screenWidth, screenHeight)), Q(3, 10))
        maxIterations == Min(Len(images) * 2, 50)
    IN  IF /\ iterations < maxIterations
           /\ imageIndex < Len(images) * 2
        THEN
          LET imageToReuse == ArrayAt(images, imageIndex % Len(images))
              placement ==
                  generateFreeImagePlacement(imageToReuse, screenWidth, screenHeight,
                      baseImageSize, DrawsFor(rnd, Len(collageImages)))
              uniqueId == DuplicateId(imageToReuse.id, Len(collageImages))
              grown == Append(collageImages, [placement EXCEPT !.id = uniqueId])
          IN  FreeTopUp_IgnoresCoverage(images, screenWidth, screenHeight, rnd, grown,
                                        calculateCoverage(grown), imageIndex + 1,
                                        iterations + 1)
        ELSE Returned(collageImages)

\* the top-up loop
RECURSIVE FreeTopUp(_, _, _, _, _, _, _, _)
FreeTopUp(images, screenWidth, screenHeight, rnd, collageImages, currentCoverage, imageIndex, iterations) ==
    LET targetCoverage == QMul(QI(screenWidth * screenHeight), Q(11, 10))
        baseImageSize == QMul(QI(Min(screenWidth, screenHeight)), Q(3, 10))
        maxIterations == Min(Len(images) * 2, 50)
    IN  IF /\ QLt(currentCoverage, targetCoverage)
           /\ iterations < maxIterations
           /\ imageIndex < Len(images) * 2
        THEN
          LET imageToReuse == ArrayAt(images, imageIndex % Len(images))
              placement ==
                  generateFreeImagePlacement(imageToReuse, screenWidth, screenHeight,
                      baseImageSize, DrawsFor(rnd, Len(collageImages)))
          IN  IF placement = Thrown
              THEN Thrown
              ELSE
                LET uniqueId == DuplicateId(imageToReuse.id, Len(collageImages))
                    grown == Append(collageImages, [placement EXCEPT !.id = uniqueId])
                IN  FreeTopUp(images, screenWidth, screenHeight, rnd, grown,
                              calculateCoverage(grown), imageIndex + 1, iterations + 1)
        ELSE Returned(collageImages)

generateFreeCollage(images, screenWidth, screenHeight, rnd) ==
    IF Len(images) = 0
    THEN Returned(<<>>)
    ELSE
      LET baseImageSize == QMul(QI(Min(screenWidth, screenHeight)), Q(3, 10))
          initial ==
              [i \in 1 .. Len(images) |->
                  generateFreeImagePlacement(images[i], screenWidth, screenHeight,
                      baseImageSize, DrawsFor(rnd, i - 1))]
      IN  FreeTopUp(images, screenWidth, screenHeight, rnd, initial,
                    calculateCoverage(initial), 0, 0)

\* variant: the mode is not consulted
generateCollage_AlwaysFree(images, screenWidth, screenHeight, mode, rnd) ==
    generateFreeCollage(images, screenWidth, screenHeight, rnd)

generateCollage(images, screenWidth, screenHeight, mode, rnd) ==
    IF mode = "grid"
    THEN generateGridCollage(images, screenWidth, screenHeight)
    ELSE generateFreeCollage(images, screenWidth, screenHeight, rnd)

(***************************************************************************)
(* The acquisition service, src/services/unsplash.ts.  A string is a       *)
(* sequence of one-character strings, so that trim, toLowerCase and        *)
(* includes are computed; an image is the record of its identity.          *)
(***************************************************************************)
\* toLowerCase of one character, over the letters the keywords use
LowerChar(c) ==
    CASE c = "A" -> "a" [] c = "E" -> "e" [] c = "N" -> "n" [] c = "S" -> "s"
      [] c = "T" -> "t" [] c = "U" -> "u" [] c = "X" -> "x" [] OTHER -> c

toLowerCase(str) == [i \in 1 .. Len(str) |-> LowerChar(str[i])]

RECURSIVE trimStart(_)
trimStart(str) ==
    IF str # <<>> /\ Head(str) = " " THEN trimStart(Tail(str)) ELSE str

RECURSIVE trimEnd(_)
trimEnd(str) ==
    IF str # <<>> /\ str[Len(str)] = " "
    THEN trimEnd(SubSeq(str, 1, Len(str) - 1))
    ELSE str

trim(str) == trimEnd(trimStart(str))

includes(str, needle) ==
    \E i \in 0 .. (Len(str) - Len(needle)) :
        SubSeq(str, i + 1, i + Len(needle)) = needle

\* variant: the query is searched as it is written
isTextBasedQuery_CaseSensitive(query) ==
    \/ includes(query, <<"q", "u", "o", "t", "e">>)
    \/ includes(query, <<"t", "y", "p", "o", "g", "r", "a", "p", "h", "y">>)
    \/ includes(query, <<"t", "e", "x", "t">>)

\* lines 244-245: the lower-cased query contains one of the three words
isTextBasedQuery(query) ==
    \/ includes(toLowerCase(query), <<"q", "u", "o", "t", "e">>)
    \/ includes(toLowerCase(query), <<"t", "y", "p", "o", "g", "r", "a", "p", "h", "y">>)
    \/ includes(toLowerCase(query), <<"t", "e", "x", "t">>)

queryVariations ==
    << <<"a", "e", "s", "t", "h", "e", "t", "i", "c">>,
       <<"l", "i", "f", "e", "s", "t", "y", "l", "e">>,
       <<"m", "i", "n", "i", "m", "a", "l">>,
       <<"i", "n", "s", "p", "i", "r", "a", "t", "i", "o", "n", "a", "l">>,
       <<"q", "u", "o", "t", "e", " ", "t", "y", "p", "o", "g", "r", "a", "p", "h", "y">> >>

\* `${keyword} ${variation}`
QueryFor(keyword, variation) == keyword \o <<" ">> \o variation

maxPages == 10

perPage == 30

\* the identities held by a list of images
IdsOf(images) == {images[i].id : i \in 1 .. Len(images)}

\* the elements of a list at the given positions, in their order in the list
Pick(list, keep) ==
    [k \in 1 .. Cardinality(keep) |->
        list[CHOOSE i \in keep : Cardinality({j \in keep : j <= i}) = k]]

\* the images of results whose identity is neither in seen nor earlier in
\* results: what a loop of "if (!has(image.id)) add" lets through
RECURSIVE Fresh(_, _)
Fresh(results, seen) ==
    IF results = <<>>
    THEN <<>>
    ELSE IF Head(results).id \in seen
         THEN Fresh(Tail(results), seen)
         ELSE <<Head(results)>> \o Fresh(Tail(results), seen \cup {Head(results).id})

\* the first n elements of a list (slice(0, n) for n >= 0)
Take(list, n) == SubSeq(list, 1, Min(Len(list), Max(n, 0)))

(***************************************************************************)
(* performSearch.  Its activation record holds query, requiredCount,       *)
(* uniqueImagesMap (the values in insertion order) and currentPage, and    *)
(* lastLength, the number of results of the page handled last.  A response *)
(* is [failed |-> TRUE] when fetch() rejects, or [failed |-> FALSE, ok,    *)
(* status, results] for an HTTP response.                                  *)
(***************************************************************************)
NoSearch == [query |-> <<>>, requiredCount |-> 0, uniqueImagesMap |-> <<>>, currentPage |-> 0, lastLength |-> 0]

\* the locals of performSearch before its loop
BeginSearch(query, requiredCount) == [query |-> query, requiredCount |-> requiredCount, uniqueImagesMap |-> <<>>, currentPage |-> 1, lastLength |-> 0]

\* the condition of the while loop
SearchContinues(s) ==
    Len(s.uniqueImagesMap) < s.requiredCount /\ s.currentPage <= maxPages

\* variant: the catch block rethrows whatever was collected
SearchCatch_AlwaysThrows(s) == [status |-> "throw", search |-> s, value |-> <<>>]

\* the catch block: what was collected, or the error when nothing was
SearchCatch(s) ==
    IF Len(s.uniqueImagesMap) > 0
    THEN [status |-> "return", search |-> s, value |-> s.uniqueImagesMap]
    ELSE [status |-> "throw", search |-> s, value |-> <<>>]

\* the loop ends: Array.from(uniqueImagesMap.values())
SearchReturn(s) == [status |-> "return", search |-> s, value |-> s.uniqueImagesMap]

\* variant: a short page does not end the loop
SearchAfterPage_IgnoresShortPage(s, results) ==
    CHOOSE outcome \in
      { IF SearchContinues(grown)
        THEN [status |-> "await", search |-> grown, value |-> <<>>]
        ELSE SearchReturn(grown) :
          grown \in {[s EXCEPT !.uniqueImagesMap = s.uniqueImagesMap \o Fresh(results, IdsOf(s.uniqueImagesMap)),
                               !.currentPage = s.currentPage + 1,
                               !.lastLength = Len(results)]} } : TRUE

\* the loop body after a non-empty page arrived, up to the next request
SearchAfterPage(s, results) ==
    CHOOSE outcome \in
      { IF Len(results) < perPage
        THEN SearchReturn([grown EXCEPT !.currentPage = s.currentPage])
        ELSE IF SearchContinues(grown)
        THEN [status |-> "await", search |-> grown, value |-> <<>>]
        ELSE SearchReturn(grown) :
          grown \in {[s EXCEPT !.uniqueImagesMap = s.uniqueImagesMap \o Fresh(results, IdsOf(s.uniqueImagesMap)),
                               !.currentPage = s.currentPage + 1,
                               !.lastLength = Len(results)]} } : TRUE

\* performSearch from the arrival of a response up to its next request,
\* its return or its throw
performSearch(s, response) ==
    IF response.failed
    THEN SearchCatch(s)
    ELSE IF ~response.ok
    THEN IF response.status \in {401, 403}
         THEN SearchCatch(s)
         ELSE IF s.currentPage > 1 THEN SearchReturn(s) ELSE SearchCatch(s)
    ELSE IF Len(response.results) = 0
    THEN SearchReturn([s EXCEPT !.lastLength = 0])
    ELSE SearchAfterPage(s, response.results)

(***************************************************************************)
(* fetchVisionBoardImages.  Its activation record f holds the arguments,   *)
(* the locals and pc: "idle" (not called), "awaiting" (a provider request  *)
(* of performSearch is in flight), "combining" (step 5 is next),           *)
(* "returned" or "threw".  step is "first" in the loop over keywords and   *)
(* variations and "deficit" in the redistribution loop; keyword and        *)
(* variation are the 1-based positions of the two loops.  keywordResults   *)
(* is indexed like allKeywords, successfulKeywords lists positions of      *)
(* allKeywords.                                                            *)
(***************************************************************************)
FetchIdle == [pc |-> "idle", mainKeyword |-> <<>>, subKeywords |-> <<>>, requiredImageCount |-> 0, allKeywords |-> <<>>, imagesPerKeyword |-> 0, step |-> "first", keyword |-> 0, variation |-> 0, collectedImages |-> <<>>, keywordResults |-> <<>>, totalCollected |-> 0, successfulKeywords |-> <<>>, deficitPerKeyword |-> 0, additionalNeeded |-> 0, value |-> <<>>]

\* Math.ceil(a / b) for integers a and b > 0
CeilDiv(a, b) == -((-a) \div b)

\* the loop over subKeywords: the trimmed, non-blank ones not seen before
RECURSIVE AddSubKeywords(_, _, _)
AddSubKeywords(allKeywords, seenKeywords, subKeywords) ==
    IF subKeywords = <<>>
    THEN allKeywords
    ELSE IF /\ Len(trim(Head(subKeywords))) > 0
            /\ toLowerCase(trim(Head(subKeywords))) \notin seenKeywords
    THEN AddSubKeywords(Append(allKeywords, trim(Head(subKeywords))),
                        seenKeywords \cup {toLowerCase(trim(Head(subKeywords)))},
                        Tail(subKeywords))
    ELSE AddSubKeywords(allKeywords, seenKeywords, Tail(subKeywords))

\* step 1: main keyword and unique sub-keywords
CombineKeywords(mainKeyword, subKeywords) ==
    AddSubKeywords(<<trim(mainKeyword)>>, {toLowerCase(trim(mainKeyword))}, subKeywords)

\* sum of the lengths of the lists of keywordResults
RECURSIVE TotalLength(_)
TotalLength(keywordResults) ==
    IF keywordResults = <<>>
    THEN 0
    ELSE Len(Head(keywordResults)) + TotalLength(Tail(keywordResults))

\* the images of a list of {image, query} items
ImagesOf(items) == [i \in 1 .. Len(items) |-> items[i].image]

\* each image tagged with the query that found it
Tagged(images, query) == [i \in 1 .. Len(images) |-> [image |-> images[i], query |-> query]]

\* a request of performSearch is in flight: fetchVisionBoardImages waits
Await(f, s) == [fetch |-> [f EXCEPT !.pc = "awaiting"], search |-> s]

\* the loops are over: step 5 follows
ToCombine(f) == [fetch |-> [f EXCEPT !.pc = "combining"], search |-> NoSearch]

\* the loop over successfulKeywords of step 4, from its head to the next request
RECURSIVE DeficitLoop(_)
DeficitLoop(f) ==
    IF \/ f.keyword > Len(f.successfulKeywords)
       \/ f.totalCollected >= f.requiredImageCount
    THEN ToCombine(f)
    ELSE IF Min(f.deficitPerKeyword, f.requiredImageCount - f.totalCollected) > 0
    THEN Await([f EXCEPT !.additionalNeeded = Min(f.deficitPerKeyword, f.requiredImageCount - f.totalCollected)],
               BeginSearch(QueryFor(f.allKeywords[f.successfulKeywords[f.keyword]], queryVariations[1]),
                           Len(f.keywordResults[f.successfulKeywords[f.keyword]])
                             + Min(f.deficitPerKeyword, f.requiredImageCount - f.totalCollected)))
    ELSE CHOOSE next \in {DeficitLoop(g) : g \in {[f EXCEPT !.keyword = f.keyword + 1]}} : TRUE

\* variant: the deficit is shared by all keywords, successful or not
RedistributeDeficit_AllKeywords(f) ==
    CHOOSE next \in
      { IF total >= f.requiredImageCount
        THEN ToCombine([f EXCEPT !.totalCollected = total])
        ELSE CHOOSE shared \in
               { IF successful = <<>>
                 THEN ToCombine([f EXCEPT !.totalCollected = total])
                 ELSE DeficitLoop([f EXCEPT !.step = "deficit",
                                           !.totalCollected = total,
                                           !.successfulKeywords = successful,
                                           !.deficitPerKeyword = CeilDiv(f.requiredImageCount - total, Len(successful)),
                                           !.keyword = 1,
                                           !.variation = 1]) :
                   successful \in {[i \in 1 .. Len(f.allKeywords) |-> i]} } : TRUE :
          total \in {TotalLength(f.keywordResults)} } : TRUE

\* step 4 up to its first request: the deficit and the keywords to share it
RedistributeDeficit(f) ==
    CHOOSE next \in
      { IF total >= f.requiredImageCount
        THEN ToCombine([f EXCEPT !.totalCollected = total])
        ELSE CHOOSE shared \in
               { IF successful = <<>>
                 THEN ToCombine([f EXCEPT !.totalCollected = total])
                 ELSE DeficitLoop([f EXCEPT !.step = "deficit",
                                           !.totalCollected = total,
                                           !.successfulKeywords = successful,
                                           !.deficitPerKeyword = CeilDiv(f.requiredImageCount - total, Len(successful)),
                                           !.keyword = 1,
                                           !.variation = 1]) :
                   successful \in {Pick([i \in 1 .. Len(f.allKeywords) |-> i],
                                        {i \in 1 .. Len(f.allKeywords) : Len(f.keywordResults[i]) > 0})} } : TRUE :
          total \in {TotalLength(f.keywordResults)} } : TRUE

\* variant: a keyword keeps every image its queries return
FirstPhaseMerge_NoQuota(f, results, query) ==
    f.collectedImages \o Tagged(Fresh(results, IdsOf(ImagesOf(f.collectedImages))), query)

\* the loop of lines 342-347: new images up to the quota, tagged with the query
FirstPhaseMerge(f, results, query) ==
    f.collectedImages \o
      Tagged(Take(Fresh(results, IdsOf(ImagesOf(f.collectedImages))),
                  f.imagesPerKeyword - Len(f.collectedImages)), query)

\* step 3 from the head of the loop over variations to the next request
RECURSIVE FirstPhase(_)
FirstPhase(f) ==
    IF f.keyword > Len(f.allKeywords)
    THEN RedistributeDeficit(f)
    ELSE IF \/ f.variation > Len(queryVariations)
            \/ Len(f.collectedImages) >= f.imagesPerKeyword
    THEN CHOOSE next \in
           { FirstPhase(g) :
               g \in {[f EXCEPT !.keywordResults[f.keyword] = f.collectedImages,
                                !.keyword = f.keyword + 1,
                                !.variation = 1,
                                !.collectedImages = <<>>]} } : TRUE
    ELSE Await(f, BeginSearch(QueryFor(f.allKeywords[f.keyword], queryVariations[f.variation]),
                              f.imagesPerKeyword - Len(f.collectedImages)))

\* the loop of lines 393-402: new images up to additionalNeeded more
DeficitMerge(f, results, query) ==
    Tagged(Take(Fresh(results, IdsOf(ImagesOf(f.keywordResults[f.successfulKeywords[f.keyword]]))),
                Min(f.additionalNeeded, f.requiredImageCount - f.totalCollected)), query)

\* fetchVisionBoardImages after performSearch returned results (or threw,
\* which the two catch blocks turn into no results), up to the next request
AfterSearch(f, query, threw, results) ==
    IF f.step = "first"
    THEN CHOOSE next \in
           { FirstPhase(g) :
               g \in {[f EXCEPT !.collectedImages = IF threw THEN f.collectedImages
                                                    ELSE FirstPhaseMerge(f, results, query),
                                !.variation = f.variation + 1]} } : TRUE
    ELSE CHOOSE next \in
           { DeficitLoop([f EXCEPT !.keywordResults[f.successfulKeywords[f.keyword]] =
                                       f.keywordResults[f.successfulKeywords[f.keyword]] \o added,
                                   !.totalCollected = f.totalCollected + Len(added),
                                   !.keyword = f.keyword + 1]) :
               added \in {IF threw THEN <<>> ELSE DeficitMerge(f, results, query)} } : TRUE

\* steps 1 to 3 up to the first request: keywords, quota, first query
StartFetch(mainKeyword, subKeywords, requiredImageCount) ==
    CHOOSE next \in
      { FirstPhase([FetchIdle EXCEPT !.mainKeyword = mainKeyword,
                                     !.subKeywords = subKeywords,
                                     !.requiredImageCount = requiredImageCount,
                                     !.allKeywords = allKeywords,
                                     !.imagesPerKeyword = CeilDiv(requiredImageCount, Len(allKeywords)),
                                     !.keywordResults = [i \in 1 .. Len(allKeywords) |-> <<>>],
                                     !.keyword = 1,
                                     !.variation = 1]) :
          allKeywords \in {CombineKeywords(mainKeyword, subKeywords)} } : TRUE

\* variant: the main keyword is not checked
fetchVisionBoardImages_NoGuard(mainKeyword, subKeywords, requiredImageCount) ==
    StartFetch(mainKeyword, subKeywords, requiredImageCount)

\* fetchVisionBoardImages from its call to its first request, or its throw
fetchVisionBoardImages(mainKeyword, subKeywords, requiredImageCount) ==
    IF Len(trim(mainKeyword)) = 0
    THEN [fetch |-> [FetchIdle EXCEPT !.pc = "threw", !.mainKeyword = mainKeyword,
                                      !.subKeywords = subKeywords,
                                      !.requiredImageCount = requiredImageCount],
          search |-> NoSearch]
    ELSE StartFetch(mainKeyword, subKeywords, requiredImageCount)

\* the Math.random() call number d (1-based) of one run, read from the tape
DrawAt(rnd, d) == rnd[((d - 1) % TapeLen) + 1]

\* the loop of shuffleArray from index i down to 1; used counts earlier draws
RECURSIVE ShuffleFrom(_, _, _, _)
ShuffleFrom(shuffled, i, rnd, used) ==
    IF i <= 0
    THEN shuffled
    ELSE CHOOSE done \in
           { ShuffleFrom([shuffled EXCEPT ![i + 1] = shuffled[j + 1], ![j + 1] = shuffled[i + 1]],
                         i - 1, rnd, used + 1) :
               j \in {QFloor(QMul(DrawAt(rnd, used + 1), QI(i + 1)))} } : TRUE

shuffleArray(array, rnd, used) == ShuffleFrom(array, Len(array) - 1, rnd, used)

\* the number of draws shuffleArray takes for a list of n elements
ShuffleDraws(n) == Max(n - 1, 0)

\* allImages: the lists of keywordResults one after the other
RECURSIVE Flatten(_)
Flatten(keywordResults) ==
    IF keywordResults = <<>>
    THEN <<>>
    ELSE Head(keywordResults) \o Flatten(Tail(keywordResults))

\* the first item of every identity not in seen
RECURSIVE UniqueFrom(_, _)
UniqueFrom(allImages, seen) ==
    IF allImages = <<>>
    THEN <<>>
    ELSE IF Head(allImages).image.id \in seen
         THEN UniqueFrom(Tail(allImages), seen)
         ELSE <<Head(allImages)>> \o UniqueFrom(Tail(allImages), seen \cup {Head(allImages).image.id})

\* variant: identities are not deduplicated across keywords
UniqueItems_NoDedupe(allImages) == allImages

\* uniqueImagesMap of step 5: the first item of every identity
UniqueItems(allImages) == UniqueFrom(allImages, {})

\* the images found by a text-based query, and the others
TextBasedImages(items) == ImagesOf(SelectSeq(items, LAMBDA item : isTextBasedQuery(item.query)))

PhotoImages(items) == ImagesOf(SelectSeq(items, LAMBDA item : ~isTextBasedQuery(item.query)))

\* Math.floor(requiredImageCount * 0.3)
MaxTextBased(requiredImageCount) == QFloor(QMul(QI(requiredImageCount), Q(3, 10)))

\* variant: the text-based images are not trimmed
SelectImages_NoTextCap(shuffledTextBased, shuffledPhoto, requiredImageCount) ==
    shuffledTextBased \o Take(shuffledPhoto, requiredImageCount - Len(shuffledTextBased))

\* finalImages: at most 30% text-based images, then photos in the remaining slots
SelectImages(shuffledTextBased, shuffledPhoto, requiredImageCount) ==
    Take(shuffledTextBased, MaxTextBased(requiredImageCount))
      \o Take(shuffledPhoto,
              requiredImageCount - Len(Take(shuffledTextBased, MaxTextBased(requiredImageCount))))

\* the number of Math.random() calls steps 5 and 6 make
CombineDraws(items, requiredImageCount) ==
    ShuffleDraws(Len(TextBasedImages(items))) + ShuffleDraws(Len(PhotoImages(items)))
      + ShuffleDraws(Len(SelectImages(TextBasedImages(items), PhotoImages(items), requiredImageCount)))

\* steps 5 and 6 after the deduplication: categorize, shuffle, select, shuffle
FinalImages(items, requiredImageCount, rnd) ==
    CHOOSE finalShuffled \in
      { shuffleArray(finalImages, rnd, ShuffleDraws(Len(TextBasedImages(items))) + ShuffleDraws(Len(PhotoImages(items)))) :
          finalImages \in
            { SelectImages(shuffleArray(TextBasedImages(items), rnd, 0),
                           shuffleArray(PhotoImages(items), rnd, ShuffleDraws(Len(TextBasedImages(items)))),
                           requiredImageCount) } } : TRUE

(***************************************************************************)
(* Inputs.                                                                 *)
(***************************************************************************)
Ratios == {"9:16", "16:9"}

Modes == {"free", "grid"}

\* width budgets of the dimension resolver
MaxWidths == (1 .. MaxWidthBudget) \cup {400}

\* canvas sides: positive ones, and the non-positive ones the guards reject
PositiveSizes == {1, 4, 9, 20, 36}

Sizes == {-4, 0, 1, 9, 20, 36}

\* provider images: landscape, portrait, a very tall strip, a square
Pool ==
    << [id |-> "a", url |-> "u/a", width |-> 4, height |-> 3],
       [id |-> "b", url |-> "u/b", width |-> 3, height |-> 4],
       [id |-> "c", url |-> "u/c", width |-> 1, height |-> 12],
       [id |-> "d", url |-> "u/d", width |-> 5, height |-> 5] >>

\* image lists with pairwise distinct identities: runs of the pool, cyclically
ImageLists ==
    { [i \in 1 .. n |-> Pool[((s + i - 2) % Len(Pool)) + 1]] :
        s \in 1 .. Len(Pool), n \in 0 .. MaxImages }

\* Math.random() results, each in [0, 1)
Draws == {Q(0, 1), Q(3, 4)}

Tapes == [1 .. TapeLen -> Draws]

(***************************************************************************)
(* Inputs of the acquisition service and behaviours of the provider.       *)
(***************************************************************************)
\* the calls: an empty and a blank main keyword; padded "Sea" with itself as
\* sub-keyword (one keyword); "Text", which makes every query of the keyword
\* text-based, with "sun" twice and a blank (two keywords).  counts are the
\* values of requiredImageCount each is called with.
FetchCalls ==
    { [mainKeyword |-> <<>>,
       subKeywords |-> <<>>,
       counts |-> {1, 4}],
      [mainKeyword |-> <<" ">>,
       subKeywords |-> << <<"s", "u", "n">> >>,
       counts |-> {1, 4}],
      [mainKeyword |-> <<" ", "S", "e", "a", " ">>,
       subKeywords |-> << <<"s", "e", "a">> >>,
       counts |-> 1 .. 4],
      [mainKeyword |-> <<"T", "e", "x", "t">>,
       subKeywords |-> << <<"s", "u", "n">>, <<" ">>, <<"S", "U", "N">> >>,
       counts |-> 1 .. 4] }

\* the image of the provider with identity i
ProviderImage(i) == [id |-> i]

\* a page that ends the results: n images from identity a on
ShortPage(a, n) == [i \in 1 .. n |-> ProviderImage(a + i - 1)]

\* a full page of perPage results over the n identities from a on
FullPage(a, n) == [i \in 1 .. perPage |-> ProviderImage(a + ((i - 1) % n))]

\* the result lists a search request can be answered with: none, one image
\* (the first or the last of the provider), all images, each of these as a
\* page that ends the results or as a full page
Pages ==
    { <<>>, ShortPage(1, 1), ShortPage(MaxIds, 1), ShortPage(1, MaxIds),
      FullPage(1, 1), FullPage(MaxIds, 1), FullPage(1, MaxIds) }

\* HTTP statuses of a response that is not ok
ErrorStatuses == {401, 403, 500}

OkResponse(results) == [failed |-> FALSE, ok |-> TRUE, status |-> 200, results |-> results]

ErrorResponse(status) == [failed |-> FALSE, ok |-> FALSE, status |-> status, results |-> <<>>]

NoResponse == [failed |-> TRUE, ok |-> FALSE, status |-> 0, results |-> <<>>]

\* the provider before any request of a run; last tells whether the response
\* handled last was a failure ("failed") or a page ("ok"), ample whether every
\* response so far was a page holding at least requiredImageCount identities;
\* outcome tells how performSearch went on after that response ("pending":
\* with its next request, "returned", "threw") and value what it returned
ProviderIdle == [requested |-> FALSE, last |-> "none", ample |-> TRUE, outcome |-> "none", value |-> <<>>]

\* the collage screen of src/app/collage.tsx before it is opened: its state
\* is described with the screen's actions
ScreenClosed ==
    [open |-> FALSE, ratio |-> "9:16", windowWidth |-> 0, imageData |-> <<>>,
     collageMode |-> "free", collageImages |-> <<>>,
     screenDimensions |-> [width |-> 0, height |-> 0],
     picked |-> 0, edits |-> 0, touched |-> FALSE, last |-> "none",
     before |-> [user |-> FALSE, touched |-> FALSE]]

(***************************************************************************)
(* The state machine: one action per public operation, applied from the   *)
(* idle state.  op names the operation applied, args its arguments and ret *)
(* its result; Return hands the result back and leaves the caller idle.    *)
(***************************************************************************)
Init ==
    /\ op = "idle"
    /\ args = [mode |-> "free"]
    /\ ret = Returned(<<>>)
    /\ fetch = FetchIdle
    /\ search = NoSearch
    /\ provider = ProviderIdle
    /\ screen = ScreenClosed

CallGetScreenDimensions ==
    \E ratio \in Ratios, maxWidth \in MaxWidths :
        /\ op = "idle"
        /\ op' = "getScreenDimensions"
        /\ args' = [ratio |-> ratio, maxWidth |-> maxWidth]
        /\ ret' = getScreenDimensions(ratio, maxWidth)
        /\ UNCHANGED <<fetch, search, provider, screen>>

CallCalculateRequiredImageCount ==
    \E screenWidth \in PositiveSizes, screenHeight \in PositiveSizes,
       mode \in Modes, currentImageCount \in 0 .. MaxCurrentCount :
        /\ op = "idle"
        /\ op' = "calculateRequiredImageCount"
        /\ args' = [screenWidth |-> screenWidth, screenHeight |-> screenHeight,
                    mode |-> mode, currentImageCount |-> currentImageCount]
        /\ ret' = calculateRequiredImageCount(screenWidth, screenHeight, mode,
                                              currentImageCount)
        /\ UNCHANGED <<fetch, search, provider, screen>>

CallGenerateGridCollage ==
    \E images \in ImageLists, screenWidth \in Sizes, screenHeight \in Sizes :
        /\ op = "idle"
        /\ op' = "generateGridCollage"
        /\ args' = [images |-> images, screenWidth |-> screenWidth,
                    screenHeight |-> screenHeight, mode |-> "grid"]
        /\ ret' = generateGridCollage(images, screenWidth, screenHeight)
        /\ UNCHANGED <<fetch, search, provider, screen>>

CallGenerateFreeCollage ==
    \E images \in ImageLists, screenWidth \in Sizes, screenHeight \in Sizes,
       rnd \in Tapes :
        /\ op = "idle"
        /\ op' = "generateFreeCollage"
        /\ args' = [images |-> images, screenWidth |-> screenWidth,
                    screenHeight |-> screenHeight, mode |-> "free", rnd |-> rnd]
        /\ ret' = generateFreeCollage(images, screenWidth, screenHeight, rnd)
        /\ UNCHANGED <<fetch, search, provider, screen>>

CallGenerateCollage ==
    \E images \in ImageLists, screenWidth \in Sizes, screenHeight \in Sizes,
       mode \in Modes, rnd \in Tapes :
        \* grid mode consults no draw: one tape stands for all of them
        /\ mode = "grid" => rnd = [j \in 1 .. TapeLen |-> Q(0, 1)]
        /\ op = "idle"
        /\ op' = "generateCollage"
        /\ args' = [images |-> images, screenWidth |-> screenWidth,
                    screenHeight |-> screenHeight, mode |-> mode, rnd |-> rnd]
        /\ ret' = generateCollage(images, screenWidth, screenHeight, mode, rnd)
        /\ UNCHANGED <<fetch, search, provider, screen>>

CallCalculateSafeGridDimensions ==
    \E imageCount \in 0 .. MaxGridCount, screenWidth \in PositiveSizes, screenHeight \in PositiveSizes :
        /\ op = "idle"
        /\ op' = "calculateSafeGridDimensions"
        /\ args' = [imageCount |-> imageCount, screenWidth |-> screenWidth,
                    screenHeight |-> screenHeight, mode |-> "grid"]
        /\ ret' = calculateSafeGridDimensions(imageCount, screenWidth, screenHeight)
        /\ UNCHANGED <<fetch, search, provider, screen>>

Return ==
    /\ op # "idle"
    /\ op' = "idle"
    /\ args' = [mode |-> "free"]
    /\ ret' = Returned(<<>>)
    /\ UNCHANGED <<fetch, search, provider, screen>>

Next ==
    \/ CallGetScreenDimensions
    \/ CallCalculateRequiredImageCount
    \/ CallGenerateGridCollage
    \/ CallGenerateFreeCollage
    \/ CallGenerateCollage
    \/ CallCalculateSafeGridDimensions
    \/ Return

Spec == Init /\ [][Next]_vars

(***************************************************************************)
(* The acquisition run: fetchVisionBoardImages is called from the idle     *)
(* state and advances by one provider response at a time, each action      *)
(* running the code from the arrival of the response to the next request   *)
(* or to the end of the function.                                          *)
(***************************************************************************)
\* fetchVisionBoardImages stops at a request, or runs steps 5 and 6 and
\* returns; of its locals the returned record keeps keywordResults only
Settle(next) ==
    /\ search' = next.search
    /\ IF next.fetch.pc = "combining"
       THEN \E items \in {UniqueItems(Flatten(next.fetch.keywordResults))} :
            \E draws \in {CombineDraws(items, next.fetch.requiredImageCount)} :
            \E rnd \in Tapes :
              \* draws the shuffles do not take are left at 0
              /\ \A j \in 1 .. TapeLen : j > draws => rnd[j] = Q(0, 1)
              /\ fetch' = [FetchIdle EXCEPT
                             !.pc = "returned",
                             !.mainKeyword = next.fetch.mainKeyword,
                             !.subKeywords = next.fetch.subKeywords,
                             !.requiredImageCount = next.fetch.requiredImageCount,
                             !.allKeywords = next.fetch.allKeywords,
                             !.imagesPerKeyword = next.fetch.imagesPerKeyword,
                             !.keywordResults = next.fetch.keywordResults,
                             !.value = FinalImages(items, next.fetch.requiredImageCount, rnd)]
       ELSE fetch' = next.fetch

CallFetchVisionBoardImages ==
    \E input \in FetchCalls : \E requiredImageCount \in input.counts :
        /\ op = "idle"
        /\ fetch.pc = "idle"
        /\ \E next \in {fetchVisionBoardImages(input.mainKeyword, input.subKeywords, requiredImageCount)} :
             /\ Settle(next)
             /\ provider' = [provider EXCEPT !.requested = next.fetch.pc = "awaiting"]
        /\ UNCHANGED <<op, args, ret, screen>>

\* the request in flight is answered; performSearch and its caller go on
Respond(response) ==
    /\ fetch.pc = "awaiting"
    /\ \E outcome \in {performSearch(search, response)} :
         /\ provider' = [provider EXCEPT
                           !.last = IF response.failed \/ ~response.ok THEN "failed" ELSE "ok",
                           !.ample = /\ provider.ample
                                     /\ ~response.failed
                                     /\ response.ok
                                     /\ Cardinality(IdsOf(response.results)) >= fetch.requiredImageCount,
                           !.outcome = CASE outcome.status = "await" -> "pending"
                                         [] outcome.status = "throw" -> "threw"
                                         [] OTHER -> "returned",
                           !.value = outcome.value]
         /\ IF outcome.status = "await"
            THEN /\ search' = outcome.search
                 /\ fetch' = fetch
            ELSE \E next \in {AfterSearch(fetch, search.query, outcome.status = "throw", outcome.value)} :
                   Settle(next)
    /\ UNCHANGED <<op, args, ret, screen>>

ProviderReturnsPage == \E results \in Pages : Respond(OkResponse(results))

ProviderReturnsError == \E status \in ErrorStatuses : Respond(ErrorResponse(status))

ProviderUnreachable == Respond(NoResponse)

\* the caller takes the result or the error
FetchReturn ==
    /\ fetch.pc \in {"returned", "threw"}
    /\ fetch' = FetchIdle
    /\ search' = NoSearch
    /\ provider' = ProviderIdle
    /\ UNCHANGED <<op, args, ret, screen>>

FetchNext ==
    \/ CallFetchVisionBoardImages
    \/ ProviderReturnsPage
    \/ ProviderReturnsError
    \/ ProviderUnreachable
    \/ FetchReturn

FetchSpec == Init /\ [][FetchNext]_vars

(***************************************************************************)
(* The collage screen, src/app/collage.tsx.  screen holds the route        *)
(* parameters (ratio, imageData), the window width, the React state        *)
(* (collageMode, collageImages, screenDimensions) and, for the properties, *)
(* the number of photos picked, the number of edits handled, whether the   *)
(* board shown was dragged or scaled, the handler that ran last and what   *)
(* the board it replaced held.                                             *)
(***************************************************************************)
\* the image lists the home screen navigates with: it opens the collage
\* screen only when the fetch returned at least one image
ScreenImageLists == { SubSeq(Pool, 1, n) : n \in 1 .. 2 }

\* Dimensions.get('window').width
WindowWidths == {84}

\* the positions a drag gesture ends at and the scales a pinch ends at
DragPoints == { <<QI(-5), QI(100)>>, <<QI(3), QI(2)>> }

PinchScales == { Q(1, 4), QI(2) }

\* the photos of the library
Assets == { [uri |-> "file/p", width |-> 2, height |-> 1] }

\* the draws of one pickImage: all low or all high
PickTapes == { [j \in 1 .. TapeLen |-> d] : d \in Draws }

\* `user-${Date.now()}-${random}`: the k-th photo picked
UserId(k) == "user-" \o ToString(k)

UserIds(s) == { UserId(k) : k \in 1 .. s.picked }

\* the identities a gesture is made on: the first and the last placement
Targets(s) ==
    IF s.collageImages = <<>>
    THEN {}
    ELSE { s.collageImages[1].id, s.collageImages[Len(s.collageImages)].id }

\* the effect on [imageDataParam, ratio, collageMode]: the screen's state
\* after it ran in state s with the draws rnd
LayoutEffect(s, rnd) ==
    IF Len(s.imageData) = 0
    THEN [s EXCEPT !.collageImages = <<>>]
    ELSE
      LET dimensions == getScreenDimensions(s.ratio, s.windowWidth - 48)
      IN  IF dimensions.width <= 0 \/ dimensions.height <= 0
          THEN [s EXCEPT !.collageImages = <<>>]
          ELSE
            LET collage == generateCollage(s.imageData, dimensions.width,
                               dimensions.height, s.collageMode, rnd)
            IN  [s EXCEPT !.screenDimensions = dimensions,
                          !.collageImages = IF collage.threw THEN <<>> ELSE collage.value]

\* the board after handleDragEnd(imageId, newX, newY)
handleDragEnd(s, imageId, newX, newY) ==
    [i \in 1 .. Len(s.collageImages) |->
        LET img == s.collageImages[i]
            maxX == QMax(QI(0), QSub(QI(s.screenDimensions.width), img.width))
            maxY == QMax(QI(0), QSub(QI(s.screenDimensions.height), img.height))
        IN  IF img.id # imageId
            THEN img
            ELSE [img EXCEPT !.x = QMax(QI(0), QMin(newX, maxX)),
                             !.y = QMax(QI(0), QMin(newY, maxY))]]

\* the board after handleScaleEnd(imageId, newScale)
handleScaleEnd(s, imageId, newScale) ==
    LET constrainedScale == QMax(Q(1, 2), QMin(newScale, QI(3)))
    IN  [i \in 1 .. Len(s.collageImages) |->
            IF s.collageImages[i].id = imageId
            THEN [s.collageImages[i] EXCEPT !.scale = constrainedScale]
            ELSE s.collageImages[i]]

\* prevImages.filter((img) => img.id !== imageId)
RECURSIVE WithoutId(_, _)
WithoutId(images, imageId) ==
    IF images = <<>>
    THEN <<>>
    ELSE IF Head(images).id = imageId
         THEN WithoutId(Tail(images), imageId)
         ELSE <<Head(images)>> \o WithoutId(Tail(images), imageId)

\* the board after the removal of imageId was confirmed
handleRemoveImage(s, imageId) == WithoutId(s.collageImages, imageId)

\* the board after pickImage returned asset; rnd holds the draws of the two
\* offsets and of the rotation
pickImage(s, asset, rnd) ==
    LET aspectRatio == Q(asset.width, asset.height)
        baseSize == QMul(QI(Min(s.screenDimensions.width, s.screenDimensions.height)), Q(3, 10))
        displayWidth == baseSize
        displayHeight == QDiv(baseSize, aspectRatio)
        centerX == QDiv(QSub(QI(s.screenDimensions.width), displayWidth), QI(2))
        centerY == QDiv(QSub(QI(s.screenDimensions.height), displayHeight), QI(2))
        randomOffsetX == QMul(QSub(rnd[1], Q(1, 2)), QI(40))
        randomOffsetY == QMul(QSub(rnd[2], Q(1, 2)), QI(40))
        newImage ==
            [id |-> UserId(s.picked + 1), url |-> asset.uri,
             x |-> QMax(QI(0), QMin(QAdd(centerX, randomOffsetX),
                                    QSub(QI(s.screenDimensions.width), displayWidth))),
             y |-> QMax(QI(0), QMin(QAdd(centerY, randomOffsetY),
                                    QSub(QI(s.screenDimensions.height), displayHeight))),
             width |-> displayWidth, height |-> displayHeight,
             scale |-> QI(1),
             rotation |-> QMul(QSub(rnd[3], Q(1, 2)), QI(10)),
             originalWidth |-> QI(asset.width), originalHeight |-> QI(asset.height)]
    IN  s.collageImages \o <<newImage>>

\* variant: the new layout is appended to the board shown
regenerateCollage_KeepsBoard(s, rnd) ==
    LET dimensions == getScreenDimensions(s.ratio, s.windowWidth - 48)
        newCollage ==
            IF s.collageMode = "free"
            THEN generateFreeCollage(s.imageData, dimensions.width, dimensions.height, rnd)
            ELSE generateGridCollage(s.imageData, dimensions.width, dimensions.height)
    IN  s.collageImages \o newCollage.value

\* the board after regenerateCollage ran with the draws rnd
regenerateCollage(s, rnd) ==
    IF Len(s.imageData) = 0
    THEN s.collageImages
    ELSE
      LET dimensions == getScreenDimensions(s.ratio, s.windowWidth - 48)
      IN  IF dimensions.width <= 0 \/ dimensions.height <= 0
          THEN s.collageImages
          ELSE
            LET newCollage ==
                    IF s.collageMode = "free"
                    THEN generateFreeCollage(s.imageData, dimensions.width,
                             dimensions.height, rnd)
                    ELSE generateGridCollage(s.imageData, dimensions.width,
                             dimensions.height)
            IN  IF newCollage.threw THEN s.collageImages ELSE newCollage.value

\* what a layout pass replaces: whether the board shown holds a picked photo
\* and whether it was dragged or scaled
Replaced(s) ==
    [user |-> \E i \in 1 .. Len(s.collageImages) : s.collageImages[i].id \in UserIds(s),
     touched |-> s.touched]

\* grid mode consults no draw: one tape stands for all of them
LayoutTapes(mode) ==
    IF mode = "grid" THEN { [j \in 1 .. TapeLen |-> Q(0, 1)] } ELSE Tapes

OpenCollageScreen ==
    \E ratio \in Ratios, imageData \in ScreenImageLists, windowWidth \in WindowWidths,
       rnd \in LayoutTapes("free") :
        /\ ~screen.open
        /\ screen' = [LayoutEffect([ScreenClosed EXCEPT !.open = TRUE, !.ratio = ratio,
                                       !.windowWidth = windowWidth, !.imageData = imageData], rnd)
                        EXCEPT !.last = "open"]
        /\ UNCHANGED <<op, args, ret, fetch, search, provider>>

SetCollageMode ==
    \E mode \in Modes :
        \E rnd \in LayoutTapes(mode) :
            /\ screen.open
            /\ mode # screen.collageMode
            /\ screen' = [LayoutEffect([screen EXCEPT !.collageMode = mode], rnd)
                            EXCEPT !.touched = FALSE, !.last = "mode",
                                   !.before = Replaced(screen)]
            /\ UNCHANGED <<op, args, ret, fetch, search, provider>>

DragEnd ==
    \E imageId \in Targets(screen), point \in DragPoints :
        /\ screen.open
        /\ screen.edits < MaxEdits
        /\ screen' = [screen EXCEPT !.collageImages = handleDragEnd(screen, imageId, point[1], point[2]),
                                    !.edits = @ + 1, !.touched = TRUE, !.last = "drag"]
        /\ UNCHANGED <<op, args, ret, fetch, search, provider>>

ScaleEnd ==
    \E imageId \in Targets(screen), newScale \in PinchScales :
        /\ screen.open
        /\ screen.edits < MaxEdits
        /\ screen' = [screen EXCEPT !.collageImages = handleScaleEnd(screen, imageId, newScale),
                                    !.edits = @ + 1, !.touched = TRUE, !.last = "scale"]
        /\ UNCHANGED <<op, args, ret, fetch, search, provider>>

RemoveImage ==
    \E imageId \in Targets(screen) :
        /\ screen.open
        /\ screen.edits < MaxEdits
        /\ screen' = [screen EXCEPT !.collageImages = handleRemoveImage(screen, imageId),
                                    !.edits = @ + 1, !.last = "remove"]
        /\ UNCHANGED <<op, args, ret, fetch, search, provider>>

PickImage ==
    \E asset \in Assets, rnd \in PickTapes :
        /\ screen.open
        /\ screen.edits < MaxEdits
        /\ screen' = [screen EXCEPT !.collageImages = pickImage(screen, asset, rnd),
                                    !.picked = @ + 1, !.edits = @ + 1, !.last = "pick"]
        /\ UNCHANGED <<op, args, ret, fetch, search, provider>>

Regenerate ==
    \E rnd \in LayoutTapes(screen.collageMode) :
        /\ screen.open
        /\ screen' = [screen EXCEPT !.collageImages = regenerateCollage(screen, rnd),
                                    !.touched = FALSE, !.last = "regenerate",
                                    !.before = Replaced(screen)]
        /\ UNCHANGED <<op, args, ret, fetch, search, provider>>

ScreenNext ==
    \/ OpenCollageScreen
    \/ SetCollageMode
    \/ DragEnd
    \/ ScaleEnd
    \/ RemoveImage
    \/ PickImage
    \/ Regenerate

ScreenSpec == Init /\ [][ScreenNext]_vars



(***************************************************************************)
(* Properties.                                                             *)
(***************************************************************************)
IsGridCall ==
    \/ op = "generateGridCollage"
    \/ op = "generateCollage" /\ args.mode = "grid"

IsFreeCall ==
    \/ op = "generateFreeCollage"
    \/ op = "generateCollage" /\ args.mode = "free"

IsLayoutCall == op \in {"generateGridCollage", "generateFreeCollage", "generateCollage"}

PositiveCanvas == args.screenWidth > 0 /\ args.screenHeight > 0

CanvasArea == QI(args.screenWidth * args.screenHeight)

TargetCoverage == QMul(CanvasArea, Q(11, 10))

\* the final grid of the current grid call
FinalGrid == GridPlan(Len(args.images), args.screenWidth, args.screenHeight)

\* width and height used by a grid of n cells of the given size along one axis
UsedExtent(n, cellSize) == QAdd(QMul(QI(n), cellSize), QI(gap * (n - 1)))

\* C1: grid coverage guarantee.  When generateCollage in grid mode is given
\* as many images as calculateRequiredImageCount returns for that positive
\* canvas in grid mode, it returns a non-empty placement list whose summed
\* width x height is at least canvasWidth x canvasHeight.
C1_GridCoverageGuarantee ==
    ( /\ op = "generateCollage"
      /\ args.mode = "grid"
      /\ PositiveCanvas
      /\ Len(args.images) >= 1
      /\ LET required == calculateRequiredImageCount(args.screenWidth,
                             args.screenHeight, "grid", 0)
         IN  required.finite /\ Len(args.images) = required.value )
    => /\ ~ret.threw
       /\ ret.value # <<>>
       /\ QLe(CanvasArea, calculateCoverage(ret.value))

\* C2: for every non-empty image list and positive canvas, the number of
\* placements generateGridCollage returns times the square of the final cell
\* size is at least 1.1 x W x H.
C2_GridReachesTarget ==
    (IsGridCall /\ PositiveCanvas /\ Len(args.images) >= 1)
    => /\ ret.value # <<>>
       /\ QLe(TargetCoverage,
              QMul(QI(Len(ret.value)),
                   QMul(ret.value[1].width, ret.value[1].width)))

C4_RequiredCountFinite ==
    op = "calculateRequiredImageCount" => (ret.finite /\ ret.value >= 1)

\* C5: for every positive integer maxWidth, getScreenDimensions returns
\* width = maxWidth and the integer nearest to maxWidth x 16/9 (ratio 9:16)
\* or maxWidth x 9/16 (ratio 16:9) as height, a tie going up, so the height
\* is strictly positive; maxWidth 400 with 9:16 gives height 711.
C5_ScreenDimensions ==
    op = "getScreenDimensions"
    => /\ ret.width = args.maxWidth
       /\ ret.height \in Nat
       /\ ret.height >= 1
       /\ IF args.ratio = "9:16"
          THEN /\ 18 * ret.height - 32 * args.maxWidth <= 9
               /\ 18 * ret.height - 32 * args.maxWidth > -9
          ELSE /\ 32 * ret.height - 18 * args.maxWidth <= 16
               /\ 32 * ret.height - 18 * args.maxWidth > -16
       /\ (args.ratio = "9:16" /\ args.maxWidth = 400 => ret.height = 711)

\* C5 witness: the resolver was applied to width 400 in portrait and gave 711.
C5_Witness ==
    /\ op = "getScreenDimensions"
    /\ args.ratio = "9:16"
    /\ args.maxWidth = 400
    /\ ret = [width |-> 400, height |-> 711]

\* C6: every placement generateFreeCollage returns, duplicates included, has
\* rotation within [-5, 5], scale within [0.8, 1.2], width equal to
\* scale x 0.3 x min(W, H), height = width / (image width / image height),
\* and x >= 0 and y >= 0.
C6_FreePlacementRanges ==
    IsFreeCall
    => \A i \in 1 .. Len(ret.value) :
         LET p == ret.value[i]
         IN  /\ QLe(QI(-5), p.rotation) /\ QLe(p.rotation, QI(5))
             /\ QLe(Q(8, 10), p.scale) /\ QLe(p.scale, Q(12, 10))
             /\ p.width = QMul(p.scale,
                    QMul(Q(3, 10), QI(Min(args.screenWidth, args.screenHeight))))
             /\ QMul(p.height, p.originalWidth) = QMul(p.width, p.originalHeight)
             /\ QLe(QI(0), p.x)
             /\ QLe(QI(0), p.y)

\* C6 witness: a free layout on a positive canvas holds a duplicate whose
\* image is taller than the canvas, so that its position was floored at 0.
C6_Witness ==
    /\ IsFreeCall
    /\ PositiveCanvas
    /\ \E i \in 1 .. Len(ret.value) :
         /\ i > Len(args.images)
         /\ QLt(QI(args.screenHeight), ret.value[i].height)
         /\ ret.value[i].y = QI(0)

\* C7: on a positive canvas every placement generateFreeCollage returns has
\* x <= max(0, W - 0.8 x width) and y <= max(0, H - 0.8 x height), for every
\* image aspect ratio.
C7_FreeKeepsFifthInside ==
    (IsFreeCall /\ PositiveCanvas)
    => \A i \in 1 .. Len(ret.value) :
         LET p == ret.value[i]
         IN  /\ QLe(p.x, QMax(QI(0), QSub(QI(args.screenWidth),
                                      QMul(Q(8, 10), p.width))))
             /\ QLe(p.y, QMax(QI(0), QSub(QI(args.screenHeight),
                                      QMul(Q(8, 10), p.height))))

\* C7 witness: a placement lies strictly inside the canvas at a positive
\* position in both axes.
C7_Witness ==
    /\ IsFreeCall
    /\ PositiveCanvas
    /\ \E i \in 1 .. Len(ret.value) :
         /\ QLt(QI(0), ret.value[i].x)
         /\ QLt(QI(0), ret.value[i].y)

\* C8 as stated: the output of generateFreeCollage never holds more than
\* 2 x N placements, N the number of input images.
C8_AtMostTwiceUnique ==
    IsFreeCall => Len(ret.value) <= 2 * Len(args.images)

\* C8 amended: generateFreeCollage adds at most min(2 x N, 50) duplicates to
\* the N unique placements, so its output holds between N and
\* N + min(2 x N, 50) placements.
C8_AtMostTwiceUniqueDuplicates ==
    IsFreeCall
    => /\ Len(ret.value) >= Len(args.images)
       /\ Len(ret.value) <= Len(args.images) + Min(2 * Len(args.images), 50)

\* C8 witness: the top-up loop ran to its cap: 3 x N placements for N images.
C8_Witness ==
    /\ IsFreeCall
    /\ Len(args.images) = MaxImages
    /\ Len(ret.value) = 3 * Len(args.images)

\* C9: in the output of generateGridCollage all placements are squares of
\* one common size with scale 1 and rotation 0, placement i sits at row
\* floor(i / cols) and column i mod cols of the final grid with a pitch of
\* cell size + 4 in each axis, and no two placements overlap.
C9_GridTiles ==
    IsGridCall
    => LET n == Len(ret.value)
           size == ret.value[1].width
           pitch == QAdd(size, QI(gap))
       IN  n > 0 =>
           /\ \A i \in 1 .. n :
                LET p == ret.value[i]
                IN  /\ p.width = size /\ p.height = size
                    /\ p.scale = QI(1) /\ p.rotation = QI(0)
                    /\ p.x = QAdd(ret.value[1].x,
                                  QMul(QI((i - 1) % FinalGrid.cols), pitch))
                    /\ p.y = QAdd(ret.value[1].y,
                                  QMul(QI((i - 1) \div FinalGrid.cols), pitch))
           /\ \A i \in 1 .. n : \A j \in (i + 1) .. n :
                \/ QLe(QAdd(ret.value[i].x, size), ret.value[j].x)
                \/ QLe(QAdd(ret.value[j].x, size), ret.value[i].x)
                \/ QLe(QAdd(ret.value[i].y, size), ret.value[j].y)
                \/ QLe(QAdd(ret.value[j].y, size), ret.value[i].y)

\* C9 witness: a grid of several rows and several columns, duplicates
\* included, was laid out.
C9_Witness ==
    /\ IsGridCall
    /\ Len(ret.value) > Len(args.images)
    /\ FinalGrid.cols > 1
    /\ FinalGrid.rows > 1
    /\ FinalGrid.cols # FinalGrid.rows

\* C10 as stated: for every input the final grid is centred with
\* offsetX = (W - usedWidth) / 2 and offsetY = (H - usedHeight) / 2, so the
\* left margin equals the right margin and the top margin the bottom one.
C10_OffsetsSymmetric ==
    (IsGridCall /\ Len(ret.value) > 0)
    => LET size == ret.value[1].width
           usedWidth == UsedExtent(FinalGrid.cols, size)
           usedHeight == UsedExtent(FinalGrid.rows, size)
       IN  /\ ret.value[1].x = QDiv(QSub(QI(args.screenWidth), usedWidth), QI(2))
           /\ ret.value[1].y = QDiv(QSub(QI(args.screenHeight), usedHeight), QI(2))

\* C10 amended: the offsets are max(0, (W - usedWidth) / 2) and
\* max(0, (H - usedHeight) / 2): the grid is centred in each axis in which
\* it fits the canvas (margins equal), and starts at 0 in an axis in which
\* the cells, clamped to size 1, overflow the canvas.
C10_OffsetsSymmetricWhenFitting ==
    (IsGridCall /\ Len(ret.value) > 0)
    => LET size == ret.value[1].width
           usedWidth == UsedExtent(FinalGrid.cols, size)
           usedHeight == UsedExtent(FinalGrid.rows, size)
           left == ret.value[1].x
           top == ret.value[1].y
           right == QSub(QI(args.screenWidth), QAdd(left, usedWidth))
           bottom == QSub(QI(args.screenHeight), QAdd(top, usedHeight))
       IN  /\ IF QLe(usedWidth, QI(args.screenWidth))
              THEN left = right
              ELSE left = QI(0) /\ size = QI(1)
           /\ IF QLe(usedHeight, QI(args.screenHeight))
              THEN top = bottom
              ELSE top = QI(0) /\ size = QI(1)

\* C10 witness: a grid that fits the canvas was centred with a positive
\* margin in one axis.
C10_Witness ==
    /\ IsGridCall
    /\ Len(ret.value) > 0
    /\ QLt(QI(0), ret.value[1].y)
    /\ QLe(UsedExtent(FinalGrid.cols, ret.value[1].width), QI(args.screenWidth))

ZeroTape == [j \in 1 .. TapeLen |-> Q(0, 1)]

\* the result generateCollage gives for the arguments of the current call
\* under another tape of draws
OtherRun(rnd) ==
    generateCollage(args.images, args.screenWidth, args.screenHeight, args.mode, rnd)

C13_FailsOnlyOnFirstRequest ==
    [][ /\ (fetch.pc = "awaiting" /\ provider.last = "none" /\ provider'.last = "failed")
             => fetch'.pc = "threw"
        /\ (fetch.pc # "threw" /\ fetch'.pc = "threw")
             => \/ Len(trim(fetch'.mainKeyword)) = 0
                \/ (provider.last = "none" /\ provider'.last = "failed") ]_vars

\* C14: a call with an empty or whitespace-only main keyword fails before any
\* provider request is issued, whatever the sub-keywords and the required
\* count are.
C14_BlankMainKeywordFailsFirst ==
    (fetch.pc # "idle" /\ Len(trim(fetch.mainKeyword)) = 0)
        => /\ fetch.pc = "threw"
           /\ ~provider.requested
           /\ provider.last = "none"
           /\ search = NoSearch

\* a whitespace-only main keyword that came with a usable sub-keyword was
\* rejected, and no request was made
C14_Witness ==
    /\ fetch.pc = "threw"
    /\ ~provider.requested
    /\ fetch.mainKeyword = <<" ">>
    /\ \E i \in 1 .. Len(fetch.subKeywords) : Len(trim(fetch.subKeywords[i])) > 0
    /\ fetch.requiredImageCount > 1

\* C15: the returned list never holds more than requiredImageCount images,
\* and holds exactly requiredImageCount images when every query of the run
\* was answered with at least requiredImageCount distinct images.
C15_ExactCountWhenAmple ==
    fetch.pc = "returned"
        => /\ Len(fetch.value) <= fetch.requiredImageCount
           /\ provider.ample => Len(fetch.value) = fetch.requiredImageCount

\* C16: the returned list holds no two images with the same identity.
C16_NoDuplicateIdentities ==
    fetch.pc = "returned"
        => \A i, j \in 1 .. Len(fetch.value) :
             fetch.value[i].id = fetch.value[j].id => i = j

\* an image collected for two keywords is in the returned list
C16_Witness ==
    /\ fetch.pc = "returned"
    /\ Len(fetch.keywordResults) = 2
    /\ \E image \in IdsOf(fetch.value) :
         /\ image \in IdsOf(ImagesOf(fetch.keywordResults[1]))
         /\ image \in IdsOf(ImagesOf(fetch.keywordResults[2]))

\* the identities of the images of a run whose originating query is
\* text-based, and the number of them in the returned list
TextBasedIds(f) == IdsOf(TextBasedImages(UniqueItems(Flatten(f.keywordResults))))

ReturnedTextBased(f) == Cardinality({i \in 1 .. Len(f.value) : f.value[i].id \in TextBasedIds(f)})

\* C17: the returned list holds at most floor(0.3 x requiredImageCount)
\* text-based images, whatever the provider answered.
C17_TextBasedAtMostThreeTenths ==
    fetch.pc = "returned"
        => 10 * ReturnedTextBased(fetch) <= 3 * fetch.requiredImageCount

\* more text-based images were collected than the cap lets through, and the
\* returned list holds one
C17_Witness ==
    /\ fetch.pc = "returned"
    /\ 10 * Cardinality(TextBasedIds(fetch)) > 3 * fetch.requiredImageCount
    /\ ReturnedTextBased(fetch) > 0

\* the number of photographic images in the returned list
ReturnedPhoto(f) == Len(f.value) - ReturnedTextBased(f)

\* C18: the returned list holds at least ceil(0.7 x requiredImageCount)
\* photographic images.
C18_PhotoAtLeastSevenTenths ==
    fetch.pc = "returned"
        => 10 * ReturnedPhoto(fetch) >= 7 * fetch.requiredImageCount

\* k: the number of different keywords among the main keyword and the
\* sub-keywords, compared trimmed and in lower case, blank ones left out
KeywordCount(f) ==
    Cardinality({toLowerCase(trim(keyword)) :
                   keyword \in {f.mainKeyword} \cup {f.subKeywords[i] : i \in 1 .. Len(f.subKeywords)}}
                \ {<<>>})

\* a list of collected items holds different images, at most
\* ceil(requiredImageCount / k) of them
WithinQuota(items, f) ==
    /\ Cardinality(IdsOf(ImagesOf(items))) = Len(items)
    /\ Len(items) > 0 => (Len(items) - 1) * KeywordCount(f) < f.requiredImageCount

\* C19: in the first fetch phase each keyword collects at most
\* ceil(requiredImageCount / k) unique images, k being the number of keywords
\* left after trimming, dropping blanks and removing case-insensitive repeats.
C19_FirstPhaseQuota ==
    [][ (fetch.pc = "awaiting" /\ fetch.step = "first")
          => /\ Len(fetch'.keywordResults) = KeywordCount(fetch')
             /\ WithinQuota(fetch'.collectedImages, fetch')
             /\ \A i \in 1 .. Len(fetch'.keywordResults) :
                  WithinQuota(fetch'.keywordResults[i], fetch') ]_vars

\* three sub-keywords of which one is blank and one a repeat: two keywords
\* share a required count of three, and the first one has filled its quota of
\* two while the second one is being fetched
C19_Witness ==
    /\ fetch.pc = "awaiting"
    /\ fetch.step = "first"
    /\ Len(fetch.subKeywords) = 3
    /\ KeywordCount(fetch) = 2
    /\ fetch.requiredImageCount = 3
    /\ fetch.keyword = 2
    /\ Len(fetch.keywordResults[1]) = 2

\* C20: within one query the pages are requested in the order 1, 2, 3, ...;
\* page p + 1 is requested only after page p came back as a full page of
\* perPage results, with fewer than requiredCount unique images collected and
\* p < maxPages, so that no query requests more than maxPages pages.
C20_PagesInOrder ==
    [][ fetch'.pc = "awaiting"
          => /\ search'.currentPage \in 1 .. maxPages
             /\ search'.currentPage > 1
                  => /\ fetch.pc = "awaiting"
                     /\ search'.query = search.query
                     /\ search'.currentPage = search.currentPage + 1
                     /\ search.currentPage < maxPages
                     /\ provider'.last = "ok"
                     /\ search'.lastLength = perPage
                     /\ Len(search'.uniqueImagesMap) < search'.requiredCount ]_vars

\* the tenth page of a query is requested
C20_Witness ==
    /\ fetch.pc = "awaiting"
    /\ search.currentPage = maxPages
    /\ search.lastLength = perPage

\* C21: a provider error on page 1 of a query makes performSearch fail with
\* an error; a provider error of any class on a later page makes it return
\* exactly the unique images collected from the earlier pages.
C21_ErrorByPage ==
    [][ (fetch.pc = "awaiting" /\ provider'.last = "failed")
          => IF search.currentPage = 1
             THEN provider'.outcome = "threw" /\ search.uniqueImagesMap = <<>>
             ELSE /\ provider'.outcome = "returned"
                  /\ provider'.value = search.uniqueImagesMap
                  /\ provider'.value # <<>> ]_vars

\* a request for a later page failed and the query returned what it had
C21_Witness ==
    /\ provider.last = "failed"
    /\ provider.outcome = "returned"
    /\ provider.value # <<>>

\* the positions in allKeywords of the keywords that hold at least one image
NonEmptyKeywords(f) == {p \in 1 .. Len(f.keywordResults) : Len(f.keywordResults[p]) > 0}

\* the position in allKeywords of the keyword the redistribution is at
DeficitKeyword(f) == f.successfulKeywords[f.keyword]

\* a step that issues the first request of an additional fetch
StartsAdditionalFetch ==
    /\ fetch'.pc = "awaiting"
    /\ fetch'.step = "deficit"
    /\ provider'.outcome # "pending"

\* additional fetches are issued only while the total is short, in keyword
\* order, for keywords that hold at least one image, none of them left out on
\* the way and none fetched twice; a first phase that ends short with some
\* keyword successful is followed by an additional fetch
AdditionalFetchesInOrder ==
    /\ StartsAdditionalFetch
         => /\ TotalLength(fetch'.keywordResults) < fetch'.requiredImageCount
            /\ DeficitKeyword(fetch') \in NonEmptyKeywords(fetch')
            /\ \A p \in NonEmptyKeywords(fetch') :
                 p < DeficitKeyword(fetch') => fetch.step = "deficit" /\ p <= DeficitKeyword(fetch)
            /\ fetch.step = "deficit" => DeficitKeyword(fetch') > DeficitKeyword(fetch)
    /\ (fetch.pc = "awaiting" /\ fetch.step = "first" /\ fetch'.pc = "returned")
         => \/ TotalLength(fetch'.keywordResults) >= fetch'.requiredImageCount
            \/ NonEmptyKeywords(fetch') = {}

\* C22: when the first phase ends short of requiredImageCount, every keyword
\* that collected at least one image gets one additional fetch and a keyword
\* that collected none gets no request; when no keyword collected anything no
\* request is issued.
C22_EverySuccessfulKeywordRefetched ==
    [][ /\ AdditionalFetchesInOrder
        /\ (fetch.pc = "awaiting" /\ fetch.step = "deficit" /\ fetch'.pc = "returned")
             => \A p \in NonEmptyKeywords(fetch') : p <= DeficitKeyword(fetch) ]_vars

\* C22, as it holds: the additional fetches go to the keywords that collected
\* at least one image, once each and in keyword order, until the total reaches
\* requiredImageCount; the keywords after that point get no request.
C22_SuccessfulKeywordsRefetchedUntilFilled ==
    [][ /\ AdditionalFetchesInOrder
        /\ (fetch.pc = "awaiting" /\ fetch.step = "deficit" /\ fetch'.pc = "returned")
             => \/ \A p \in NonEmptyKeywords(fetch') : p <= DeficitKeyword(fetch)
                \/ TotalLength(fetch'.keywordResults) >= fetch'.requiredImageCount ]_vars

\* an additional fetch is pending for the first keyword while the second
\* keyword collected nothing
C22_Witness ==
    /\ fetch.pc = "awaiting"
    /\ fetch.step = "deficit"
    /\ Len(fetch.keywordResults) = 2
    /\ DeficitKeyword(fetch) = 1
    /\ NonEmptyKeywords(fetch) = {1}

\* the words that make a query text-based
TextWords ==
    { <<"q", "u", "o", "t", "e">>,
      <<"t", "y", "p", "o", "g", "r", "a", "p", "h", "y">>,
      <<"t", "e", "x", "t">> }

\* str contains one of the words, letter by letter and whatever the case
MentionsTextWord(str) ==
    \E word \in TextWords : \E at \in 1 .. Len(str) :
        /\ at + Len(word) - 1 <= Len(str)
        /\ \A j \in 1 .. Len(word) : LowerChar(str[at + j - 1]) = word[j]

\* the merged pool of a run in keyword order, and the positions in a pool
\* that hold the first occurrence of an identity
MergedPool(f) == Flatten(f.keywordResults)

FirstOccurrences(pool) ==
    {i \in 1 .. Len(pool) : \A j \in 1 .. (i - 1) : pool[j].image.id # pool[i].image.id}

\* C30: an image of the merged pool is classified text-based exactly when the
\* full query of its first occurrence in keyword order contains 'quote',
\* 'typography' or 'text', whatever the case; when the first keyword itself
\* contains such a word, every image collected for it is text-based and at
\* most floor(0.3 x requiredImageCount) of them are returned.
C30_TextBasedByFirstQuery ==
    fetch.pc = "returned"
        => /\ IdsOf(TextBasedImages(UniqueItems(MergedPool(fetch))))
                = {MergedPool(fetch)[i].image.id :
                     i \in {k \in FirstOccurrences(MergedPool(fetch)) :
                              MentionsTextWord(MergedPool(fetch)[k].query)}}
           /\ IdsOf(PhotoImages(UniqueItems(MergedPool(fetch))))
                = {MergedPool(fetch)[i].image.id :
                     i \in {k \in FirstOccurrences(MergedPool(fetch)) :
                              ~MentionsTextWord(MergedPool(fetch)[k].query)}}
           /\ MentionsTextWord(fetch.allKeywords[1])
                => /\ IdsOf(ImagesOf(fetch.keywordResults[1])) \subseteq TextBasedIds(fetch)
                   /\ 10 * Cardinality(IdsOf(fetch.value) \cap IdsOf(ImagesOf(fetch.keywordResults[1])))
                        <= 3 * fetch.requiredImageCount

\* the keyword 'Text' collected two images with queries that name no
\* text-based variation, both were classified text-based, and one was returned
C30_Witness ==
    /\ fetch.pc = "returned"
    /\ fetch.allKeywords[1] = <<"T", "e", "x", "t">>
    /\ Len(fetch.keywordResults[1]) = 2
    /\ \A i \in 1 .. 2 :
         fetch.keywordResults[1][i].query = QueryFor(fetch.allKeywords[1], queryVariations[1])
    /\ Cardinality(IdsOf(fetch.value) \cap IdsOf(ImagesOf(fetch.keywordResults[1]))) = 1

\* C24: a layout operation given a non-positive canvasWidth or canvasHeight
\* rejects it at once, in grid mode and in free mode: it computes and returns
\* no placement.
C24_NonPositiveCanvasRejected ==
    (IsLayoutCall /\ ~PositiveCanvas) => ret = Returned(<<>>)

\* C25: for every imageCount >= 1 on a positive canvas
\* calculateSafeGridDimensions returns cols >= 1 and rows >= 1 with
\* rows x cols >= imageCount, (rows - 1) x cols < imageCount and
\* rows x (cols - 1) < imageCount.
C25_GridDimensionsTight ==
    (op = "calculateSafeGridDimensions" /\ args.imageCount >= 1)
        => /\ ret.cols >= 1
           /\ ret.rows >= 1
           /\ ret.rows * ret.cols >= args.imageCount
           /\ (ret.rows - 1) * ret.cols < args.imageCount
           /\ ret.rows * (ret.cols - 1) < args.imageCount

\* a grid of several rows that came out narrower than the initial estimate
\* ceil(sqrt(imageCount x W / H)) of its columns
C25_Witness ==
    /\ op = "calculateSafeGridDimensions"
    /\ args.imageCount >= 1
    /\ ret.rows > 1
    /\ ret.cols > 1
    /\ ret.cols < CeilSqrt(QMul(QI(args.imageCount), Q(args.screenWidth, args.screenHeight)))

\* the initial fit of the current grid call: grid, cell area and coverage
InitialGrid == calculateSafeGridDimensions(Len(args.images), args.screenWidth, args.screenHeight)

InitialCellArea ==
    QMul(GridCellSize(InitialGrid.cols, InitialGrid.rows, args.screenWidth, args.screenHeight),
         GridCellSize(InitialGrid.cols, InitialGrid.rows, args.screenWidth, args.screenHeight))

InitialCoverage == QMul(QI(Len(args.images)), InitialCellArea)

\* the count the claim gives: N plus the cells the shortfall amounts to
InflatedCount ==
    IF QLt(InitialCoverage, TargetCoverage)
    THEN Len(args.images) + QCeil(QDiv(QSub(TargetCoverage, InitialCoverage), InitialCellArea))
    ELSE Len(args.images)

\* the grid fitted from scratch to the count the claim gives
InflatedGrid == calculateSafeGridDimensions(InflatedCount, args.screenWidth, args.screenHeight)

\* C26: when the initial coverage N x cellArea is below 1.1 x W x H,
\* generateGridCollage returns N + ceil((1.1 x W x H - N x cellArea) / cellArea)
\* placements, laid out row by row with the cols, rows and cell size fitted
\* from scratch to that count; otherwise it returns N placements.
C26_GridCountAndRefit ==
    (IsGridCall /\ PositiveCanvas /\ Len(args.images) > 0)
        => /\ ~ret.threw
           /\ Len(ret.value) = InflatedCount
           /\ \A k \in 1 .. Len(ret.value) :
                /\ ret.value[k].width
                     = GridCellSize(InflatedGrid.cols, InflatedGrid.rows, args.screenWidth, args.screenHeight)
                /\ ret.value[k].height = ret.value[k].width
                /\ ret.value[k].x
                     = QAdd(ret.value[1].x,
                            QMul(QI((k - 1) % InflatedGrid.cols), QAdd(ret.value[k].width, QI(gap))))
                /\ ret.value[k].y
                     = QAdd(ret.value[1].y,
                            QMul(QI((k - 1) \div InflatedGrid.cols), QAdd(ret.value[k].width, QI(gap))))

\* a grid was topped up and the inflated count was fitted with other columns
\* and another cell size than the initial grid
C26_Witness ==
    /\ IsGridCall
    /\ PositiveCanvas
    /\ Len(args.images) > 0
    /\ Len(ret.value) > Len(args.images)
    /\ InflatedGrid.cols # InitialGrid.cols
    /\ QMul(ret.value[1].width, ret.value[1].width) # InitialCellArea

\* the cell size of the initial grid before the clamp at 1 is at least 1
InitialCellUnclamped ==
    QLe(QI(1),
        QMin(Q(Max(1, args.screenWidth - gap * (InitialGrid.cols - 1)), InitialGrid.cols),
             Q(Max(1, args.screenHeight - gap * (InitialGrid.rows - 1)), InitialGrid.rows)))

C28_FreeTopUpStopsAtCoverageOrCap ==
    IsFreeCall
        => /\ ~ret.threw
           /\ Len(ret.value) >= Len(args.images)
           /\ Len(ret.value) <= Len(args.images) + Min(2 * Len(args.images), 50)
           /\ \A k \in 1 .. Len(ret.value) :
                ret.value[k].id
                  = IF k <= Len(args.images)
                    THEN args.images[k].id
                    ELSE DuplicateId(args.images[((k - 1 - Len(args.images)) % Len(args.images)) + 1].id, k - 1)
           /\ \A m \in Len(args.images) .. (Len(ret.value) - 1) :
                Len(args.images) > 0 => QLt(SumArea(ret.value, m), TargetCoverage)
           /\ Len(ret.value) < Len(args.images) + Min(2 * Len(args.images), 50)
                => QLe(TargetCoverage, SumArea(ret.value, Len(ret.value)))

\* the loop appended a duplicate and stopped before its cap because the
\* target area was reached
C28_Witness ==
    /\ IsFreeCall
    /\ PositiveCanvas
    /\ Len(ret.value) > Len(args.images)
    /\ Len(ret.value) < Len(args.images) + Min(2 * Len(args.images), 50)
    /\ QLe(TargetCoverage, SumArea(ret.value, Len(ret.value)))

\* C29: in grid mode calculateRequiredImageCount treats a currentImageCount
\* of 0 as a count of 1: on every positive canvas the result for 0 equals the
\* result for 1.
C29_ZeroCountAsOne ==
    (op = "calculateRequiredImageCount" /\ args.mode = "grid" /\ args.currentImageCount = 0)
        => ret = calculateRequiredImageCount(args.screenWidth, args.screenHeight, "grid", 1)

\* the canvas regenerateCollage lays out on
RegenerateCanvas == getScreenDimensions(screen.ratio, screen.windowWidth - 48)

=============================================================================
